---- MODULE Spec2Model ----
(***************************************************************************)
(* Retrieval-and-ranking engine of the literature search backend:          *)
(*   - OpenAlexClient._make_request   (retry loop, 429 handling)           *)
(*   - LiteratureSearcher.search      (orchestration, result cache)        *)
(*   - LiteratureSearcher._generate_cache_key / _get_from_cache /          *)
(*     _add_to_cache                                                       *)
(*   - ExpertSearcher.search_experts, ArticleSearcher.search_articles      *)
(* Times are whole seconds.  A Python Optional is a sequence of length     *)
(* at most one: <<>> is None, <<v>> is the value v.                        *)
(***************************************************************************)
EXTENDS Integers, Sequences, FiniteSets, TLC

VARIABLES
    callArgs,       \* the arguments of a call of a function that reads no state
    callOut,        \* what the calls made on callArgs returned, in order
    attempt,        \* _make_request: loop variable of `for attempt in range(max_retries)`
    sleeps,         \* _make_request: per request issued, the time.sleep calls that followed it
    issued,         \* _make_request: number of session.request calls made so far
    ret,            \* _make_request: the value returned (kind "running" until it returns)
    upstream,       \* _make_request: what the upstream answered to each request so far
    result_cache,   \* LiteratureSearcher.result_cache, entries in dict insertion order
    now,            \* datetime.now(), seconds
    last,           \* the operation that completed last, with what it returned
    lastPut,        \* the cache entry written by the most recent _add_to_cache
    ops,            \* number of operations completed
    keyArgs,        \* _generate_cache_key: the argument tuples of two searches
    keyOut,         \* _generate_cache_key: the keys generated for them
    pc,             \* concurrent searches: position of each thread
    loc             \* concurrent searches: local variables of each thread

clientVars == <<attempt, sleeps, issued, ret, upstream>>
searchVars == <<result_cache, now, last, lastPut, ops>>
keyVars    == <<keyArgs, keyOut>>
callVars   == <<callArgs, callOut>>
concVars   == <<pc, loc>>
vars == <<attempt, sleeps, issued, ret, upstream, result_cache, now, last,
          lastPut, ops, keyArgs, keyOut, pc, loc, callArgs, callOut>>

None == <<>>
Some(v) == <<v>>

(***************************************************************************)
(* Text: a Python str is the sequence of its characters                    *)
(***************************************************************************)
Whitespace == {" ", "\t"}

\* str.lower(), character by character, for the letters that occur in the
\* texts of this module.
LowerChar(c) ==
    CASE c = "A" -> "a" [] c = "B" -> "b" [] c = "D" -> "d" [] c = "N" -> "n"
      [] c = "T" -> "t" [] c = "W" -> "w" [] OTHER -> c
Lower(text) == [i \in 1..Len(text) |-> LowerChar(text[i])]

\* str.strip()
Strip(text) ==
    LET inked == {i \in 1..Len(text) : text[i] \notin Whitespace} IN
    IF inked = {} THEN <<>>
    ELSE SubSeq(text, CHOOSE i \in inked : \A j \in inked : i <= j,
                      CHOOSE i \in inked : \A j \in inked : i >= j)

\* str.split(): the maximal runs of characters that are no whitespace.
RECURSIVE SplitFrom(_, _, _)
SplitFrom(text, i, word) ==
    IF i > Len(text) THEN (IF word = <<>> THEN <<>> ELSE <<word>>)
    ELSE IF text[i] \in Whitespace
         THEN (IF word = <<>> THEN <<>> ELSE <<word>>) \o SplitFrom(text, i + 1, <<>>)
         ELSE SplitFrom(text, i + 1, Append(word, text[i]))
Split(text) == SplitFrom(text, 1, <<>>)

\* ' '.join(words)
RECURSIVE JoinWords(_)
JoinWords(words) ==
    IF words = <<>> THEN <<>>
    ELSE IF Len(words) = 1 THEN words[1]
    ELSE words[1] \o <<" ">> \o JoinWords(Tail(words))

\* s in t, for two strings
IsSubstring(s, t) == \E i \in 0..(Len(t) - Len(s)) : SubSeq(t, i + 1, i + Len(s)) = s

(***************************************************************************)
(* OpenAlexClient                                                          *)
(***************************************************************************)
max_retries == 3
rate_limit_delay == 1

\* One bibliographic record of an upstream page.
Work(t, c, d, au) ==
    [title |-> t, citations |-> c, doi |-> d, authors |-> au, abstract |-> None]

\* JSON objects a 200 response may carry.
Datas ==
    { [has_results |-> FALSE, results |-> <<>>],
      [has_results |-> TRUE,  results |-> <<>>],
      [has_results |-> TRUE,  results |-> <<Work(<<"D", "e", "e", "p", " ", "N", "e", "t", "s">>, 50, Some("10.1/a"), <<"Ada">>)>>],
      [has_results |-> TRUE,  results |-> <<Work(<<"D", "e", "e", "p", " ", "N", "e", "t", "s">>, 50, Some("10.1/a"), <<"Ada">>),
                                            Work(<<"d", "e", "e", "p", " ", "n", "e", "t", "s", " ">>, 10, None, <<"Bob">>),
                                            Work(<<"B", "o", "t", "a", "n", "y">>, 1000, None, <<"Ada", "Bob">>)>>] }
NoData == [has_results |-> FALSE, results |-> <<>>]

\* Values of the Retry-After header that are a number of seconds.
RetryAfterSeconds == {1, 2, 5}

\* What the upstream can answer to one request.
\*   net:  session.request raised a requests RequestException
\*   body: "empty" no content, "object" a JSON object without 'message',
\*         "object_msg" a JSON object with 'message', "array" valid JSON
\*         that is not an object, "text" not JSON
\*   retry_after: None (header absent), Some(n) seconds, Some(-1) a header
\*         that is not a number (an HTTP date)
\*   jre:  whether the JSON decode error of this build of requests is a
\*         RequestException (requests >= 2.27) or a plain ValueError
Outcome(n, s, b, ra, j, d) ==
    [net |-> n, status |-> s, body |-> b, retry_after |-> ra, jre |-> j, data |-> d]
NetError == Outcome(TRUE, 0, "empty", None, FALSE, NoData)
ErrorBodies == {"empty", "object", "object_msg", "array", "text"}
JreChoices(b) == IF b = "text" THEN BOOLEAN ELSE {FALSE}
Outcomes ==
    {NetError}
    \cup {Outcome(FALSE, 200, "object", None, FALSE, d) : d \in Datas}
    \cup {Outcome(FALSE, 200, b, None, FALSE, NoData) : b \in {"empty", "array", "text"}}
    \cup UNION {{Outcome(FALSE, 429, b, ra, j, NoData) :
                    ra \in {None, Some(-1)} \cup {Some(n) : n \in RetryAfterSeconds},
                    j \in JreChoices(b)} : b \in ErrorBodies}
    \cup UNION {{Outcome(FALSE, s, b, None, j, NoData) :
                    s \in {404, 500}, j \in JreChoices(b)} : b \in ErrorBodies}

\* OpenAlexResponse(status_code, data, error); `kind` tells a response from
\* the call still running and from a call that returned no value.
Response(sc, d, e) == [kind |-> "response", status_code |-> sc, data |-> d, error |-> e]
Running  == [kind |-> "running", status_code |-> 0, data |-> NoData, error |-> None]
NoValue  == [kind |-> "none", status_code |-> 0, data |-> NoData, error |-> None]

Return(r)    == [act |-> "return", ret |-> r, sleep |-> <<>>]
Continue(sl) == [act |-> "continue", ret |-> Running, sleep |-> sl]

\* except requests.exceptions.RequestException (lines 171-179), followed by
\* the sleep that ends the loop body (line 188).
OnRequestException(a) ==
    IF a = max_retries - 1
    THEN Return(Response(500, NoData, Some("request failed")))
    ELSE Continue(<<rate_limit_delay * (a + 1), rate_limit_delay>>)

\* except Exception (lines 180-186).
OnException == Return(Response(500, NoData, Some("Unexpected error")))

\* A 200 body that is taken for a reason to try again.
OnInvalidJsonRetry == Continue(<<rate_limit_delay>>)
\* except ValueError around response.json() of a 200 response (lines 156-163).
OnInvalidJson == Return(Response(200, NoData, Some("Invalid JSON response from API")))

\* One iteration of the retry loop, for the answer o given to its request.
AttemptStep(a, o) ==
    IF o.net THEN OnRequestException(a)
    ELSE IF o.status # 200 THEN
        \* line 139: response.json() if response.content else {}
        IF o.body = "text" THEN (IF o.jre THEN OnRequestException(a) ELSE OnException)
        \* line 140: error_data.get('message', ...) on a JSON value that is no object
        ELSE IF o.body = "array" THEN OnException
        ELSE IF o.status = 429 THEN
            \* line 144: float(headers.get('Retry-After', rate_limit_delay * 2))
            IF o.retry_after = None THEN Continue(<<rate_limit_delay * 2>>)
            ELSE IF o.retry_after[1] < 0 THEN OnException
            ELSE Continue(<<o.retry_after[1]>>)
        ELSE Return(Response(o.status, NoData,
                 Some(IF o.body = "object_msg" THEN "message" ELSE "content")))
    ELSE
        IF o.body \in {"text", "empty"}
        THEN OnInvalidJson
        ELSE IF o.body = "array" THEN OnException
        ELSE Return(Response(200, o.data, None))

\* A loop that is left with the call still in progress.
LoopUnfinished == Running
\* The value of a call whose loop ran out of attempts: the function ends
\* without a return statement.
LoopExhausted == NoValue

ClientInit ==
    /\ attempt = 0
    /\ sleeps = <<>>
    /\ issued = 0
    /\ ret = Running
    /\ upstream = <<>>

\* One pass through the body of the for loop (lines 124-188).
Attempt(o) ==
    /\ ret.kind = "running"
    /\ attempt < max_retries
    /\ LET st == AttemptStep(attempt, o) IN
        /\ issued' = issued + 1
        /\ upstream' = Append(upstream, o)
        /\ sleeps' = Append(sleeps, st.sleep)
        /\ ret' = st.ret
        /\ attempt' = IF st.act = "continue" THEN attempt + 1 ELSE attempt

\* The for loop ends and _make_request falls off its end.
LoopExit ==
    /\ ret.kind = "running"
    /\ attempt = max_retries
    /\ ret' = LoopExhausted
    /\ UNCHANGED <<attempt, sleeps, issued, upstream>>

\* The whole call on a given sequence of upstream answers, as its callers
\* see it: the value returned and the number of requests issued.
RECURSIVE MakeRequestFrom(_, _, _)
MakeRequestFrom(a, answers, n) ==
    IF a = max_retries \/ answers = <<>>
    THEN [ret |-> LoopExhausted, issued |-> n]
    ELSE LET st == AttemptStep(a, Head(answers)) IN
         IF st.act = "return"
         THEN [ret |-> st.ret, issued |-> n + 1]
         ELSE MakeRequestFrom(a + 1, Tail(answers), n + 1)
MakeRequest(answers) == MakeRequestFrom(0, answers, 0)

(***************************************************************************)
(* OpenAlexResponse.get_works                                              *)
(***************************************************************************)
\* work.title.lower().strip()
NormalizeTitle(t) == Strip(Lower(t))

RECURSIVE GetWorksFrom(_, _)
GetWorksFrom(results, seen_titles) ==
    IF results = <<>> THEN <<>>
    ELSE LET work == Head(results)
             normalized_title == NormalizeTitle(work.title)
         IN  IF normalized_title # <<>> /\ normalized_title \notin seen_titles
             THEN <<work>> \o GetWorksFrom(Tail(results), seen_titles \cup {normalized_title})
             ELSE GetWorksFrom(Tail(results), seen_titles)

GetWorks(response) ==
    IF response.error # None \/ ~response.data.has_results THEN <<>>
    ELSE GetWorksFrom(response.data.results, {})

(***************************************************************************)
(* Structured queries                                                      *)
(***************************************************************************)
\* One key of the structured query: absent, present with null, or present
\* with a list of terms.
Absent    == [present |-> FALSE, null |-> FALSE, value |-> <<>>]
Null      == [present |-> TRUE,  null |-> TRUE,  value |-> <<>>]
Listed(l) == [present |-> TRUE,  null |-> FALSE, value |-> l]

TermLists == {<<>>, <<"deep learning">>}
FieldValues == {Absent} \cup {Listed(l) : l \in TermLists}
StructuredQuery(ra, ex, kw) == [research_areas |-> ra, expertise |-> ex, search_keywords |-> kw]
StructuredQueries ==
    {StructuredQuery(ra, ex, kw) : ra \in FieldValues, ex \in FieldValues, kw \in FieldValues}
    \cup {StructuredQuery(Null, Absent, Absent),
          StructuredQuery(Absent, Null, Listed(<<"deep learning">>)),
          StructuredQuery(Listed(<<"deep learning">>), Absent, Null)}
NoQuery == StructuredQuery(Absent, Absent, Absent)

\* The three term lists are all empty or absent.
IsEmptyQuery(sq) ==
    \A f \in {sq.research_areas, sq.expertise, sq.search_keywords} :
        ~f.null /\ f.value = <<>>

\* A test for the key alone, which takes an empty list for search terms.
TruthyIfPresent(f) == f.present
\* dict.get(key): falsy for an absent key, for null and for an empty list.
Truthy(f) == f.present /\ ~f.null /\ f.value # <<>>

\* What the query-structuring collaborator does with a query text.
QPOutcome(k, sq) == [kind |-> k, sq |-> sq]
QPOutcomes ==
    {QPOutcome("raise", NoQuery), QPOutcome("none", NoQuery)}
    \cup {QPOutcome("query", sq) : sq \in StructuredQueries}

(***************************************************************************)
(* LiteratureSearcher: cache key and result cache                          *)
(***************************************************************************)
cache_duration == 24
SecondsPerHour == 3600
MAX_ENTRIES == 100
EVICT_BATCH == 10

SearchArgs(q, m, fy, ty, mc, pt, oa) ==
    [query |-> q, max_results |-> m, from_year |-> fy, to_year |-> ty,
     min_citations |-> mc, publication_types |-> pt, open_access_only |-> oa]

\* Publication-type names in the order Python's sorted() puts them.
TypeOrder == <<"article", "journal", "journal-article", "preprint">>
TypeIndex(t) == CHOOSE i \in 1..Len(TypeOrder) : TypeOrder[i] = t

RECURSIVE Sorted(_)
Sorted(types) ==
    IF types = <<>> THEN <<>>
    ELSE LET m == CHOOSE i \in 1..Len(types) :
                    \A j \in 1..Len(types) : TypeIndex(types[i]) <= TypeIndex(types[j])
         IN  <<types[m]>> \o Sorted(SubSeq(types, 1, m - 1) \o SubSeq(types, m + 1, Len(types)))

RECURSIVE Join(_, _)
Join(sep, parts) ==
    IF parts = <<>> THEN ""
    ELSE IF Len(parts) = 1 THEN parts[1]
    ELSE parts[1] \o sep \o Join(sep, Tail(parts))

\* f"{x or ''}" for an Optional[int]: None and 0 are both falsy.
OrEmpty(x) == IF x = None \/ x[1] = 0 THEN "" ELSE ToString(x[1])

\* publication_types or []
OrEmptyList(pt) == IF pt = None THEN <<>> ELSE pt[1]

GenerateCacheKey(a) ==
    Join("|", << "q=" \o a.query,
                 "max=" \o ToString(a.max_results),
                 "from=" \o OrEmpty(a.from_year),
                 "to=" \o OrEmpty(a.to_year),
                 "min_cite=" \o OrEmpty(a.min_citations),
                 "types=" \o Join("-", Sorted(OrEmptyList(a.publication_types))),
                 "oa=" \o (IF a.open_access_only THEN "yes" ELSE "no") >>)

CacheEntry(k, r, t) == [key |-> k, result |-> r, cached_at |-> t]
CacheKeys(cache) == {cache[i].key : i \in 1..Len(cache)}
EntryOf(cache, k) == cache[CHOOSE i \in 1..Len(cache) : cache[i].key = k]

\* A lookup that still answers at an age of exactly cache_duration hours.
GetFromCacheInclusive(cache, cache_key, t) ==
    IF cache_key \in CacheKeys(cache)
    THEN LET cached_item == EntryOf(cache, cache_key) IN
         IF t - cached_item.cached_at <= cache_duration * SecondsPerHour
         THEN Some(cached_item.result)
         ELSE None
    ELSE None
\* _get_from_cache at time t: Some(result) on a hit, None on a miss.
GetFromCache(cache, cache_key, t) ==
    IF cache_key \in CacheKeys(cache)
    THEN LET cached_item == EntryOf(cache, cache_key) IN
         IF t - cached_item.cached_at < cache_duration * SecondsPerHour
         THEN Some(cached_item.result)
         ELSE None
    ELSE None

\* A lookup that deletes the entry it finds expired.
CacheAfterGetPurged(cache, cache_key, t) ==
    SelectSeq(cache, LAMBDA e :
        ~(e.key = cache_key /\ t - e.cached_at >= cache_duration * SecondsPerHour))
\* The cache after _get_from_cache: no statement of lines 1136-1148 assigns
\* to self.result_cache or to an entry.
CacheAfterGet(cache, cache_key, t) == cache

\* self.result_cache[cache_key] = cache_entry: an existing key keeps its
\* place in the dict, a new key goes to the end.
StoreEntry(cache, e) ==
    IF e.key \in CacheKeys(cache)
    THEN [i \in 1..Len(cache) |-> IF cache[i].key = e.key THEN e ELSE cache[i]]
    ELSE Append(cache, e)

\* Position of entry i in sorted(keys, key=cached_at): the sort is stable,
\* so entries of equal age stay in dict order.
SortRank(cache, i) ==
    Cardinality({j \in 1..Len(cache) :
        \/ cache[j].cached_at < cache[i].cached_at
        \/ cache[j].cached_at = cache[i].cached_at /\ j < i})

\* The keys an eviction by newest creation time would remove.
NewestKeys(cache) ==
    LET n == Len(cache)
        first == {i \in 1..n : SortRank(cache, i) >= n - EVICT_BATCH} IN
    [r \in 1..Cardinality(first) |-> cache[CHOOSE i \in first : SortRank(cache, i) = n - r].key]
\* sorted(...)[:10]: the keys of the EVICT_BATCH entries that sort first.
OldestKeys(cache) ==
    LET first == {i \in 1..Len(cache) : SortRank(cache, i) < EVICT_BATCH} IN
    [r \in 1..Cardinality(first) |-> cache[CHOOSE i \in first : SortRank(cache, i) = r - 1].key]

SeqRange(s) == {s[i] : i \in 1..Len(s)}
DeleteKeys(cache, ks) == SelectSeq(cache, LAMBDA e : e.key \notin ks)

\* An eviction that starts one entry later.
EvictOldestLate(cache) ==
    IF Len(cache) > MAX_ENTRIES + 1
    THEN DeleteKeys(cache, SeqRange(OldestKeys(cache)))
    ELSE cache
\* Lines 1159-1168: the size check and the removal of the oldest entries.
EvictOldest(cache) ==
    IF Len(cache) > MAX_ENTRIES
    THEN DeleteKeys(cache, SeqRange(OldestKeys(cache)))
    ELSE cache

\* _add_to_cache at time t.
AddToCache(cache, cache_key, result, t) ==
    EvictOldest(StoreEntry(cache, CacheEntry(cache_key, result, t)))

(***************************************************************************)
(* LiteratureSearcher._extract_terms                                       *)
(***************************************************************************)
stopwords ==
    { <<"t", "h", "e">>,
      <<"a", "n", "d">>,
      <<"w", "i", "t", "h">>,
      <<"f", "o", "r">>,
      <<"t", "h", "i", "s">>,
      <<"t", "h", "a", "t">>,
      <<"f", "r", "o", "m">>,
      <<"b", "e", "e", "n">>,
      <<"h", "a", "v", "e">>,
      <<"h", "a", "s">>,
      <<"n", "o", "t">>,
      <<"a", "r", "e">>,
      <<"w", "e", "r", "e">>,
      <<"w", "a", "s">>,
      <<"b", "e", "i", "n", "g">>,
      <<"b", "e", "e", "n">>,
      <<"c", "a", "n">>,
      <<"c", "o", "u", "l", "d">>,
      <<"w", "i", "l", "l">>,
      <<"w", "o", "u", "l", "d">>,
      <<"s", "h", "o", "u", "l", "d">>,
      <<"m", "a", "y">>,
      <<"m", "i", "g", "h", "t">> }

\* set(' '.join(words[i:i+n]) for i in range(len(words)-(n-1)))
NGrams(words, n) == {JoinWords(SubSeq(words, i, i + n - 1)) : i \in 1..(Len(words) - (n - 1))}

\* A term that counts as common when any one of its words is a stop word.
AnyStopword(t) == \E w \in SeqRange(Split(t)) : w \in stopwords
\* all(w in stopwords for w in t.split())
AllStopwords(t) == \A w \in SeqRange(Split(t)) : w \in stopwords

ExtractTerms(text) ==
    IF text = <<>> THEN {}
    ELSE LET words == SelectSeq(Split(Lower(text)), LAMBDA w : Len(w) > 2)
             unigrams == NGrams(words, 1)
             bigrams == NGrams(words, 2)
             trigrams == NGrams(words, 3)
             all_terms == unigrams \cup bigrams \cup trigrams
         IN  {t \in all_terms : Len(t) > 3 /\ ~AllStopwords(t)}

(***************************************************************************)
(* LiteratureSearcher.search                                               *)
(***************************************************************************)
Min(a, b) == IF a < b THEN a ELSE b
Max(a, b) == IF a > b THEN a ELSE b

\* len(xs[:m]) for a list of n elements.
SliceLen(n, m) == IF m >= 0 THEN Min(n, m) ELSE Max(n + m, 0)

\* _determine_publication_type
DeterminePublicationType(work) == IF work.doi = None THEN "preprint" ELSE "journal-article"

\* _process_work_results: the works that pass the publication-type and
\* open-access filters, in the order of work_results.
ProcessWorkResults(work_results, publication_types, open_access_only) ==
    SelectSeq(work_results, LAMBDA work :
        /\ ~(OrEmptyList(publication_types) # <<>>
              /\ DeterminePublicationType(work) \notin SeqRange(OrEmptyList(publication_types)))
        /\ ~(open_access_only /\ work.doi = None))

\* _extract_search_terms of LiteratureSearcher.
ExtractSearchTerms(sq) ==
    (IF Truthy(sq.research_areas) THEN sq.research_areas.value ELSE <<>>)
    \o (IF Truthy(sq.expertise) THEN sq.expertise.value ELSE <<>>)
    \o (IF Truthy(sq.search_keywords) THEN sq.search_keywords.value ELSE <<>>)

\* The mapping search returns; n_results is len(results), total_results is
\* metadata.total_results.
Result(st, msg, q, n, total) ==
    [status |-> st, message |-> msg, original_query |-> q, n_results |-> n, total_results |-> total]
NoResult == Result("none", None, "", 0, 0)

\* What the call self.openalex_client.search_works(...) does: it raises, or
\* the client runs _make_request against the upstream's answers.
ClientRun(k, r, n) == [kind |-> k, ret |-> r, issued |-> n]
Raises == ClientRun("raise", NoValue, 0)
RunOn(answers) ==
    LET m == MakeRequest(answers) IN ClientRun("run", m.ret, m.issued)

\* The effect of one search: the value returned, the cache after it, the
\* requests issued, and whether the lookup hit and a put was made.
Effect(r, c, n, h, p, asked, sq) ==
    [ret |-> r, cache |-> c, requests |-> n, hit |-> h, put |-> p, asked |-> asked, sq |-> sq]

\* A search without the except clause gives its caller no mapping.
SearchFailedUncaught(a, cache, n, asked, sq) ==
    Effect(NoResult, cache, n, FALSE, FALSE, asked, sq)
\* except Exception (lines 277-288)
SearchFailed(a, cache, n, asked, sq) ==
    Effect(Result("error", Some("Error processing literature search"), a.query, 0, 0),
           cache, n, FALSE, FALSE, asked, sq)

\* An upstream error that is cached like a result.
UpstreamErrorCached(a, cache, n, sq) ==
    LET r == Result("error", Some("Error from OpenAlex API"), a.query, 0, 0) IN
    Effect(r, StoreEntry(cache, CacheEntry(GenerateCacheKey(a), r, 0)), n, FALSE, FALSE, TRUE, sq)
\* if response.error (lines 169-181)
UpstreamError(a, cache, n, sq) ==
    Effect(Result("error", Some("Error from OpenAlex API"), a.query, 0, 0),
           cache, n, FALSE, FALSE, TRUE, sq)

\* search (lines 104-288) called at time t; the result is cached at time t2.
SearchRun(cache, t, t2, a, qp, up, an) ==
    LET cache_key == GenerateCacheKey(a)
        cached_result == GetFromCache(cache, cache_key, t)
        held == CacheAfterGet(cache, cache_key, t)
        sq == qp.sq
    IN
    IF cached_result # None
    THEN Effect(cached_result[1], held, 0, TRUE, FALSE, FALSE, NoQuery)
    ELSE IF qp.kind = "raise" THEN SearchFailed(a, held, 0, FALSE, NoQuery)
    \* line 121: structured_query.get on a value that is no mapping
    ELSE IF qp.kind = "none" THEN SearchFailed(a, held, 0, FALSE, NoQuery)
    \* lines 121-122: len() of a null list
    ELSE IF sq.research_areas.null \/ sq.expertise.null THEN SearchFailed(a, held, 0, TRUE, sq)
    ELSE IF ~Truthy(sq.research_areas) /\ ~Truthy(sq.expertise) /\ ~Truthy(sq.search_keywords)
    THEN Effect(Result("error", Some("Could not extract search terms from query"), a.query, 0, 0),
                held, 0, FALSE, FALSE, TRUE, sq)
    ELSE IF up.kind = "raise" THEN SearchFailed(a, held, 0, TRUE, sq)
    \* line 169: response.error on a call that returned no value
    ELSE IF up.ret.kind = "none" THEN SearchFailed(a, held, up.issued, TRUE, sq)
    ELSE IF up.ret.error # None
    THEN UpstreamError(a, held, up.issued, sq)
    ELSE
        LET work_results == GetWorks(up.ret)
            literature_results ==
                ProcessWorkResults(work_results, a.publication_types, a.open_access_only)
            returned == SliceLen(Len(literature_results), a.max_results)
            result == Result("success", None, a.query, returned, Len(work_results))
        IN
        \* line 660: iterating a null search_keywords
        IF sq.search_keywords.null THEN SearchFailed(a, held, up.issued, TRUE, sq)
        \* lines 204-250: the research analyzer raises
        ELSE IF an = "raise" /\ returned > 0 THEN SearchFailed(a, held, up.issued, TRUE, sq)
        ELSE Effect(result, AddToCache(held, cache_key, result, t2),
                    up.issued, FALSE, TRUE, TRUE, sq)

\* The operation completed last.
Last(op, n, k, t, size, e) ==
    [op |-> op, seq |-> n, key |-> k, at |-> t, presize |-> size, ret |-> e.ret,
     requests |-> e.requests, hit |-> e.hit, put |-> e.put, asked |-> e.asked,
     sq |-> e.sq, raised |-> FALSE, upfailed |-> FALSE, given |-> NoQuery]
NoLast ==
    [op |-> "none", seq |-> 0, key |-> "", at |-> 0, presize |-> 0, ret |-> NoResult,
     requests |-> 0, hit |-> FALSE, put |-> FALSE, asked |-> FALSE, sq |-> NoQuery,
     raised |-> FALSE, upfailed |-> FALSE, given |-> NoQuery]

PutRecord(v, k, r, t, n, ev) ==
    [valid |-> v, key |-> k, result |-> r, at |-> t, seq |-> n, evicted |-> ev]
NoPut == PutRecord(FALSE, "", NoResult, 0, 0, FALSE)

MaxOps == 2

\* One call of LiteratureSearcher.search; dur is the time that passes
\* between the cache lookup and the caching of the result.
Search(a, qp, up, an, dur) ==
    /\ LET e == SearchRun(result_cache, now, now + dur, a, qp, up, an)
           k == GenerateCacheKey(a)
       IN
        /\ result_cache' = e.cache
        /\ now' = now + dur
        /\ ops' = ops + 1
        /\ last' = Last("search", ops + 1, k, now, Len(result_cache), e)
        /\ lastPut' = IF e.put
                      THEN PutRecord(TRUE, k, e.ret, now + dur, ops + 1,
                                     Len(result_cache) >= MAX_ENTRIES /\ k \notin CacheKeys(result_cache))
                      ELSE lastPut

\* advanced_search, lines 315-319: the structured query built from the
\* explicit parameters.
ExplicitQuery(research_areas, specific_topics, methodologies) ==
    StructuredQuery(Listed(research_areas), Listed(OrEmptyList(specific_topics)),
                    Listed(OrEmptyList(methodologies)))

\* Lines 322-330: the query text made of the parameters that are not empty.
SynthesizedQuery(research_areas, specific_topics, methodologies) ==
    Join(" ",
         (IF research_areas # <<>>
          THEN <<"Research in " \o Join(", ", research_areas)>> ELSE <<>>)
         \o (IF OrEmptyList(specific_topics) # <<>>
             THEN <<"focusing on " \o Join(", ", specific_topics[1])>> ELSE <<>>)
         \o (IF OrEmptyList(methodologies) # <<>>
             THEN <<"using " \o Join(", ", methodologies[1])>> ELSE <<>>))

\* One call of advanced_search (lines 290-341): it hands the query text to
\* search (lines 333-341); last.given is the structured query of line 315
\* and last.sq the one search worked with.
AdvancedSearch(research_areas, specific_topics, methodologies, max_results, qp, up) ==
    LET a == SearchArgs(SynthesizedQuery(research_areas, specific_topics, methodologies),
                        max_results, None, None, None, None, FALSE)
        e == SearchRun(result_cache, now, now, a, qp, up, "ok")
        k == GenerateCacheKey(a)
    IN  /\ result_cache' = e.cache
        /\ ops' = ops + 1
        /\ last' = [Last("advanced_search", ops + 1, k, now, Len(result_cache), e)
                       EXCEPT !.given = ExplicitQuery(research_areas, specific_topics,
                                                      methodologies)]
        /\ lastPut' = IF e.put
                      THEN PutRecord(TRUE, k, e.ret, now, ops + 1,
                                     Len(result_cache) >= MAX_ENTRIES /\ k \notin CacheKeys(result_cache))
                      ELSE lastPut
        /\ UNCHANGED now

\* Time passes between two operations.
Tick(d) ==
    /\ now' = now + d
    /\ ops' = ops + 1
    /\ UNCHANGED <<result_cache, last, lastPut>>

(***************************************************************************)
(* LiteratureSearcher._calculate_relevance                                 *)
(* A float is the exact fraction num/den with den > 0.                     *)
(***************************************************************************)
Fraction(n, d) == [num |-> n, den |-> d]
Zero == Fraction(0, 1)
FracLess(a, b) == a.num * b.den < b.num * a.den
FracEqual(a, b) == a.num * b.den = b.num * a.den

\* _extract_terms_from_work
ExtractTermsFromWork(work) ==
    (IF work.title # <<>> THEN ExtractTerms(work.title) ELSE {})
    \cup (IF work.abstract # None /\ work.abstract[1] # <<>>
          THEN ExtractTerms(work.abstract[1]) ELSE {})

\* Lines 954-959: the similarity of a query term and a term of the work.
Similarity(query_term, work_term) ==
    IF IsSubstring(Lower(query_term), Lower(work_term))
    THEN Fraction(Len(query_term), Len(work_term))
    ELSE IF IsSubstring(Lower(work_term), Lower(query_term))
    THEN Fraction(Len(work_term), Len(query_term))
    ELSE Zero

\* Lines 951-959: best_match, the maximum of 0.0 and the similarities.
BestMatch(query_term, work_terms) ==
    LET sims == {Zero} \cup {Similarity(query_term, work_term) : work_term \in work_terms}
    IN  CHOOSE f \in sims : \A g \in sims : ~FracLess(f, g)

\* Topic matches that include a best match of one half.
TopicMatchesInclusive(work_terms, query_terms) ==
    LET significant == {query_term \in query_terms :
                           LET best_match == BestMatch(query_term, work_terms)
                           IN  2 * best_match.num >= best_match.den}
    IN  [query_term \in significant |-> BestMatch(query_term, work_terms)]
\* Lines 948-962: the query terms whose best match exceeds 0.5.
TopicMatches(work_terms, query_terms) ==
    LET significant == {query_term \in query_terms :
                           LET best_match == BestMatch(query_term, work_terms)
                           IN  2 * best_match.num > best_match.den}
    IN  [query_term \in significant |-> BestMatch(query_term, work_terms)]

\* Lines 967-969: the terms of the work that match any query term.
MatchingTerms(work_terms, query_terms) ==
    Cardinality({term \in work_terms :
        \E qt \in query_terms :
            IsSubstring(Lower(qt), Lower(term)) \/ IsSubstring(Lower(term), Lower(qt))})

CITATION_SCALE == 200
CoverageWeight == 85
CitationWeight == 15
WeightScale == 100

\* A coverage that is not capped at 1.
CoverageUncapped(work_terms, query_terms) ==
    Fraction(MatchingTerms(work_terms, query_terms), Cardinality(query_terms))
\* Line 970: min(1.0, matching_terms / len(query_terms)), for query_terms not empty
Coverage(work_terms, query_terms) ==
    Fraction(Min(Cardinality(query_terms), MatchingTerms(work_terms, query_terms)),
             Cardinality(query_terms))

\* A citation factor that falls as the citations grow.
CitationFactorFalling(citations) ==
    Fraction(CITATION_SCALE - Min(CITATION_SCALE, citations), CITATION_SCALE)
\* Line 973: min(1.0, (work.citations or 0) / 200)
CitationFactor(citations) == Fraction(Min(CITATION_SCALE, citations), CITATION_SCALE)

\* A weighted sum with the two weights exchanged.
WeightedSumByCitations(coverage, citation_factor) ==
    Fraction(CitationWeight * coverage.num * citation_factor.den
                + CoverageWeight * citation_factor.num * coverage.den,
             WeightScale * coverage.den * citation_factor.den)
\* Line 974: 0.85 * relevance_score + 0.15 * citation_factor
WeightedSum(coverage, citation_factor) ==
    Fraction(CoverageWeight * coverage.num * citation_factor.den
                + CitationWeight * citation_factor.num * coverage.den,
             WeightScale * coverage.den * citation_factor.den)

\* Lines 964-974
RelevanceScore(work, work_terms, query_terms) ==
    IF query_terms = {} THEN Zero
    ELSE WeightedSum(Coverage(work_terms, query_terms), CitationFactor(work.citations))

CalculateRelevance(work, query_terms) ==
    LET work_terms == ExtractTermsFromWork(work) IN
    [topic_matches |-> TopicMatches(work_terms, query_terms),
     relevance_score |-> RelevanceScore(work, work_terms, query_terms)]

\* text.lower() contains discipline.lower(), for the title and the abstract
\* of a result (lines 557, 562).
DisciplinePresent(discipline, result) ==
    \/ IsSubstring(Lower(discipline), Lower(result.title))
    \/ (result.abstract # None /\ result.abstract[1] # <<>>
          /\ IsSubstring(Lower(discipline), Lower(result.abstract[1])))

\* interdisciplinary_search, lines 551-572: the new relevance_score of a
\* result whose score is base_score.
InterdisciplinaryScore(result, base_score, primary_discipline, secondary_disciplines) ==
    LET primary_present == DisciplinePresent(primary_discipline, result)
        secondary_count ==
            Cardinality({i \in 1..Len(secondary_disciplines) :
                            DisciplinePresent(secondary_disciplines[i], result)})
        n == Len(secondary_disciplines)
    IN  IF primary_present /\ secondary_count > 0
        THEN Fraction(5 * base_score.den * n + 3 * base_score.num * n
                         + 2 * secondary_count * base_score.den,
                      10 * base_score.den * n)
        ELSE Fraction(3 * base_score.num, 10 * base_score.den)

\* ExpertSearcher._extract_terms (expert_searcher.py, lines 407-446): its
\* statements and its stop words are those of LiteratureSearcher._extract_terms.
ExpertExtractTerms(text) ==
    IF text = <<>> THEN {}
    ELSE LET words == SelectSeq(Split(Lower(text)), LAMBDA w : Len(w) > 2)
             all_terms == NGrams(words, 1) \cup NGrams(words, 2) \cup NGrams(words, 3)
         IN  {t \in all_terms : Len(t) > 3 /\ ~AllStopwords(t)}

(***************************************************************************)
(* LiteratureSearcher.search: scoring, sorting and limiting the results    *)
(***************************************************************************)
\* _process_work_results, lines 657-660: the lower-cased terms of the keys
\* that are present.
QueryTerms(sq) ==
    UNION {{Lower(f.value[i]) : i \in 1..Len(f.value)} :
              f \in {sq.research_areas, sq.expertise, sq.search_keywords}}

\* LiteratureSearchResult built at lines 675-695.
LiteratureSearchResult(work, query_terms) ==
    LET scored == CalculateRelevance(work, query_terms) IN
    [title |-> work.title, abstract |-> work.abstract, doi |-> work.doi,
     citations |-> work.citations, open_access |-> work.doi # None,
     type |-> DeterminePublicationType(work),
     topic_matches |-> scored.topic_matches, relevance_score |-> scored.relevance_score]

\* _process_work_results: one result per work that passes the filters.
LiteratureResults(work_results, sq, publication_types, open_access_only) ==
    LET passed == ProcessWorkResults(work_results, publication_types, open_access_only)
        query_terms == QueryTerms(sq)
    IN  [i \in 1..Len(passed) |-> LiteratureSearchResult(passed[i], query_terms)]

\* An order by relevance_score alone.
KeyGreaterByScore(a, b) == FracLess(b.relevance_score, a.relevance_score)
\* (a.relevance_score, a.citations) > (b.relevance_score, b.citations)
KeyGreater(a, b) ==
    \/ FracLess(b.relevance_score, a.relevance_score)
    \/ FracEqual(a.relevance_score, b.relevance_score) /\ a.citations > b.citations

\* Line 195: list.sort(key=..., reverse=True); the sort is stable, results
\* of equal key keep their order.
SortDescending(results) ==
    LET before(i) == Cardinality({j \in 1..Len(results) :
                        \/ KeyGreater(results[j], results[i])
                        \/ ~KeyGreater(results[i], results[j]) /\ j < i})
    IN  [r \in 1..Len(results) |-> results[CHOOSE i \in 1..Len(results) : before(i) = r - 1]]

\* Line 196: literature_results[:max_results]
LimitedResults(results, max_results) ==
    SubSeq(results, 1, SliceLen(Len(results), max_results))

\* Lines 184-196 for one upstream response.
RankedResults(response, sq, max_results, publication_types, open_access_only) ==
    LimitedResults(
        SortDescending(LiteratureResults(GetWorks(response), sq,
                                         publication_types, open_access_only)),
        max_results)

\* ArticleSearcher._convert_work_to_article, lines 346-358: the share of the
\* query terms matched by keywords that contain a query term.
ArticleRelevance(work, query_terms) ==
    IF query_terms = {} THEN Zero
    ELSE LET keywords == ExtractTermsFromWork(work)
             matching_terms == Cardinality({term \in keywords :
                                  \E qt \in query_terms : IsSubstring(qt, term)})
         IN  Fraction(Min(Cardinality(query_terms), matching_terms), Cardinality(query_terms))

\* ResearchArticle built at lines 361-370; citations is its citation_count.
ResearchArticle(work, query_terms) ==
    [title |-> work.title, abstract |-> work.abstract, doi |-> work.doi,
     citations |-> work.citations, keywords |-> ExtractTermsFromWork(work),
     relevance_score |-> ArticleRelevance(work, query_terms)]

\* ArticleSearcher._convert_works_to_articles
ConvertWorksToArticles(works, sq) ==
    [i \in 1..Len(works) |-> ResearchArticle(works[i], QueryTerms(sq))]

\* search_articles, lines 119-132, for one upstream response.
RankedArticles(response, sq, max_results) ==
    LimitedResults(SortDescending(ConvertWorksToArticles(GetWorks(response), sq)), max_results)

(***************************************************************************)
(* ExpertSearcher.search_experts, ArticleSearcher.search_articles          *)
(***************************************************************************)
\* _extract_search_terms of ExpertSearcher and of ArticleSearcher: extend()
\* by the value of every key that is present.
ExtendSearchTerms(sq) ==
    sq.research_areas.value \o sq.expertise.value \o sq.search_keywords.value

\* extend() by a null value raises.
ExtendRaises(sq) == sq.research_areas.null \/ sq.expertise.null \/ sq.search_keywords.null

\* not " ".join(search_terms).strip()
IsBlankTerm(term) == term \in {"", " "}
IsBlankQuery(search_terms) == \A i \in 1..Len(search_terms) : IsBlankTerm(search_terms[i])

\* _extract_experts_from_works: the authors with at least min_works works.
AuthorsOf(works) == UNION {SeqRange(works[i].authors) : i \in 1..Len(works)}
WorksCount(works, author) ==
    Cardinality({i \in 1..Len(works) : author \in SeqRange(works[i].authors)})
ExtractExpertsFromWorks(works, min_works) ==
    {author \in AuthorsOf(works) : WorksCount(works, author) >= min_works}

\* f"author:{author_name.lower().replace(' ', '_')}" for the names of the model
AuthorId(author_name) ==
    CASE author_name = "Ada" -> "author:ada"
      [] author_name = "ada" -> "author:ada"
      [] author_name = "Bob" -> "author:bob"
      [] author_name = "Bo B" -> "author:bo_b"
      [] OTHER -> "author:" \o author_name

\* Lines 333-338: concepts, the terms of the title and of the abstract.
ExpertConcepts(work) ==
    (IF work.title # <<>> THEN ExpertExtractTerms(work.title) ELSE {})
    \cup (IF work.abstract # None /\ work.abstract[1] # <<>>
          THEN ExpertExtractTerms(work.abstract[1]) ELSE {})

\* Lines 349-374 for the authors of work number w from the j-th on.  Sets are
\* objects: heap[n] is the set made as `concepts` for work n, and
\* experts[id].areas names the object that is the expert's expertise_areas.
\* A new expert gets the object itself (line 368), an expert that exists has
\* its own object updated in place (line 374).
RECURSIVE ProcessAuthors(_, _, _, _)
ProcessAuthors(st, w, authors, j) ==
    IF j > Len(authors) THEN st
    ELSE LET author_id == AuthorId(authors[j])
             next ==
                 IF author_id \notin DOMAIN st.experts
                 THEN [st EXCEPT !.experts =
                          @ @@ (author_id :> [areas |-> w, works_count |-> 1])]
                 ELSE [st EXCEPT
                          !.experts[author_id].works_count = @ + 1,
                          !.heap[st.experts[author_id].areas] = @ \cup st.heap[w]]
         IN  ProcessAuthors(next, w, authors, j + 1)

\* The loop over the works (lines 320-380), from work number w on.
RECURSIVE ProcessWorks(_, _, _)
ProcessWorks(st, works, w) ==
    IF w > Len(works) THEN st
    ELSE IF works[w].authors = <<>> THEN ProcessWorks(st, works, w + 1)
    ELSE ProcessWorks(
            ProcessAuthors([st EXCEPT !.heap = @ @@ (w :> ExpertConcepts(works[w]))],
                           w, works[w].authors, 1),
            works, w + 1)

\* The expertise_areas of the experts that _extract_experts_from_works
\* returns (lines 388-393: those with at least min_works works).
ExpertiseAreas(works, min_works) ==
    LET st == ProcessWorks([experts |-> <<>>, heap |-> <<>>], works, 1)
        filtered_experts == {aid \in DOMAIN st.experts :
                                st.experts[aid].works_count >= min_works}
    IN  [aid \in filtered_experts |-> st.heap[st.experts[aid].areas]]

ListResult(n, total) == Result("list", None, "", n, total)
Raised(l) == [l EXCEPT !.raised = TRUE]

\* The client ran and gave no successful response: a response with its
\* error set, or no value at all.
UpstreamFailed(up) ==
    up.kind = "run" /\ (up.ret.kind = "none" \/ up.ret.error # None)

\* The number of items built from the works of the response: the experts
\* of _extract_experts_from_works, or one article per work.
ItemCount(op, works, min_works) ==
    IF op = "search_experts"
    THEN Cardinality(ExtractExpertsFromWorks(works, min_works))
    ELSE Len(works)

\* search_experts / search_articles: both have the same steps.
SearcherRun(op, sq, up, max_results, min_works) ==
    LET search_terms == ExtendSearchTerms(sq) IN
    IF ExtendRaises(sq)
    THEN [raised |-> TRUE, upfailed |-> FALSE, e |-> Effect(NoResult, result_cache, 0, FALSE, FALSE, TRUE, sq)]
    ELSE IF IsBlankQuery(search_terms)
    THEN [raised |-> FALSE, upfailed |-> FALSE, e |-> Effect(ListResult(0, 0), result_cache, 0, FALSE, FALSE, TRUE, sq)]
    ELSE IF up.kind = "raise"
    THEN [raised |-> TRUE, upfailed |-> FALSE, e |-> Effect(NoResult, result_cache, 0, FALSE, FALSE, TRUE, sq)]
    \* response.error on a call that returned no value
    ELSE IF up.ret.kind = "none"
    THEN [raised |-> TRUE, upfailed |-> TRUE, e |-> Effect(NoResult, result_cache, up.issued, FALSE, FALSE, TRUE, sq)]
    ELSE IF up.ret.error # None
    THEN [raised |-> FALSE, upfailed |-> TRUE,
          e |-> Effect(ListResult(0, 0), result_cache, up.issued, FALSE, FALSE, TRUE, sq)]
    ELSE LET works == GetWorks(up.ret) IN
         [raised |-> FALSE, upfailed |-> FALSE,
          e |-> Effect(ListResult(SliceLen(ItemCount(op, works, min_works), max_results), Len(works)),
                       result_cache, up.issued, FALSE, FALSE, TRUE, sq)]

SearcherStep(op, r) ==
    /\ ops' = ops + 1
    /\ last' = [(IF r.raised
                 THEN Raised(Last(op, ops + 1, "", now, Len(result_cache), r.e))
                 ELSE Last(op, ops + 1, "", now, Len(result_cache), r.e))
                EXCEPT !.upfailed = r.upfailed]
    /\ UNCHANGED <<result_cache, now, lastPut>>

SearchExperts(sq, up, max_results, min_works) ==
    SearcherStep("search_experts",
        SearcherRun("search_experts", sq, up, max_results, min_works))

SearchArticles(sq, up, max_results) ==
    SearcherStep("search_articles", SearcherRun("search_articles", sq, up, max_results, 0))

(***************************************************************************)
(* Specifications                                                          *)
(***************************************************************************)
ClientIdle == attempt = 0 /\ sleeps = <<>> /\ issued = 0 /\ ret = Running /\ upstream = <<>>
SearchIdle ==
    result_cache = <<>> /\ now = 0 /\ last = NoLast /\ lastPut = NoPut /\ ops = 0
KeyIdle == keyArgs = <<>> /\ keyOut = <<>>
ConcIdle == pc = <<>> /\ loc = <<>>
CallIdle == callArgs = <<>> /\ callOut = <<>>

\* --- one call of _make_request against every upstream -------------------
SpecClientInit == ClientInit /\ SearchIdle /\ KeyIdle /\ ConcIdle /\ CallIdle
SpecClientNext ==
    \/ \E o \in Outcomes : Attempt(o) /\ UNCHANGED <<searchVars, keyVars, concVars, callVars>>
    \/ LoopExit /\ UNCHANGED <<searchVars, keyVars, concVars, callVars>>
SpecClient == SpecClientInit /\ [][SpecClientNext]_vars
\* The thread that runs the call keeps running: a loop iteration or the
\* exit from the loop that can be taken is taken.
SpecClientLive == SpecClient /\ WF_vars(SpecClientNext)

\* --- searches on a freshly constructed LiteratureSearcher ----------------
ArgsA == SearchArgs("q", 10, None, None, None, None, FALSE)
ArgsB == SearchArgs("q", 1, Some(2020), None, Some(0), Some(<<"preprint">>), FALSE)
MainArgs == {ArgsA, ArgsB}

Ok200(d) == Outcome(FALSE, 200, "object", None, FALSE, d)
Plain429 == Outcome(FALSE, 429, "empty", None, FALSE, NoData)
NotFound == Outcome(FALSE, 404, "object_msg", None, FALSE, NoData)
ThreeWorks == CHOOSE d \in Datas : Len(d.results) = 3
NoWorks == CHOOSE d \in Datas : d.has_results /\ d.results = <<>>

\* The answers the upstream gives to the successive requests of one call.
SearchAnswers ==
    {NetError, Plain429, NotFound, Outcome(FALSE, 200, "text", None, FALSE, NoData),
     Ok200(ThreeWorks), Ok200(NoWorks)}
ClientRuns == {Raises} \cup {RunOn(answers) : answers \in [1..max_retries -> SearchAnswers]}
BasicRuns == {RunOn(<<Ok200(ThreeWorks)>>), RunOn(<<NotFound>>)}
DeepQuery == StructuredQuery(Listed(<<"deep learning">>), Absent, Absent)
Others == <<clientVars, keyVars, concVars, callVars>>

Init == ClientIdle /\ SearchIdle /\ KeyIdle /\ ConcIdle /\ CallIdle
Next ==
    \/ \E a \in MainArgs, qp \in QPOutcomes, up \in BasicRuns :
          ops < MaxOps /\ Search(a, qp, up, "ok", 0) /\ UNCHANGED Others
    \/ \E a \in MainArgs, up \in ClientRuns, an \in {"ok", "raise"} :
          ops < MaxOps /\ Search(a, QPOutcome("query", DeepQuery), up, an, 0) /\ UNCHANGED Others
    \/ \E sq \in StructuredQueries, up \in BasicRuns :
          ops < MaxOps /\ SearchExperts(sq, up, 20, 1) /\ UNCHANGED Others
    \/ \E up \in ClientRuns, m \in {0, 20}, w \in {1, 3} :
          ops < MaxOps /\ SearchExperts(DeepQuery, up, m, w) /\ UNCHANGED Others
    \/ \E sq \in StructuredQueries, up \in BasicRuns :
          ops < MaxOps /\ SearchArticles(sq, up, 20) /\ UNCHANGED Others
    \/ \E up \in ClientRuns, m \in {0, 20} :
          ops < MaxOps /\ SearchArticles(DeepQuery, up, m) /\ UNCHANGED Others
    \/ ops < MaxOps /\ Tick(cache_duration * SecondsPerHour) /\ UNCHANGED Others
Spec == Init /\ [][Next]_vars

\* --- searches on a LiteratureSearcher whose cache earlier searches filled ---
\* Earlier search number i asked for query "f" with max_results = i and
\* found nothing; four such searches completed per second.
FillerArgs(i) == SearchArgs("f", i, None, None, None, None, FALSE)
FillerEntry(i) ==
    CacheEntry(GenerateCacheKey(FillerArgs(i)), Result("success", None, "f", 0, 0), i \div 4)
WarmSizes == {MAX_ENTRIES - 1, MAX_ENTRIES}
WarmArgs == {FillerArgs(1), ArgsA, ArgsB}
WarmQueries == {QPOutcome("query", DeepQuery), QPOutcome("query", NoQuery)}
TickDeltas == {1, cache_duration * SecondsPerHour}
Durations == {0, 1}
MaxWarmOps == 3

SpecWarmInit ==
    /\ ClientIdle /\ KeyIdle /\ ConcIdle /\ CallIdle
    /\ \E n \in WarmSizes : result_cache = [i \in 1..n |-> FillerEntry(i)]
    /\ now = cache_duration * SecondsPerHour - 1
    /\ last = NoLast /\ lastPut = NoPut /\ ops = 0
SpecWarmNext ==
    \/ \E a \in WarmArgs, qp \in WarmQueries, up \in BasicRuns, dur \in Durations :
          ops < MaxWarmOps /\ Search(a, qp, up, "ok", dur) /\ UNCHANGED Others
    \/ \E d \in TickDeltas : ops < MaxWarmOps /\ Tick(d) /\ UNCHANGED Others
SpecWarm == SpecWarmInit /\ [][SpecWarmNext]_vars

\* --- _generate_cache_key on the arguments of two searches ------------------
KeyArgSet ==
    {SearchArgs(q, m, fy, ty, mc, pt, oa) :
        q \in {"q", "r"}, m \in {5, 10},
        fy \in {None, Some(0), Some(2020)}, ty \in {None, Some(2024)},
        mc \in {None, Some(0), Some(10)},
        pt \in {None, Some(<<>>), Some(<<"journal-article">>), Some(<<"journal", "article">>)},
        oa \in BOOLEAN}

GenerateKeys ==
    /\ keyOut = <<>>
    /\ keyOut' = <<GenerateCacheKey(keyArgs[1]), GenerateCacheKey(keyArgs[2])>>
    /\ UNCHANGED keyArgs

SpecKeyInit ==
    /\ ClientIdle /\ SearchIdle /\ ConcIdle /\ CallIdle
    /\ keyArgs \in KeyArgSet \X KeyArgSet
    /\ keyOut = <<>>
SpecKeyNext == GenerateKeys /\ UNCHANGED <<clientVars, searchVars, concVars, callVars>>
SpecKey == SpecKeyInit /\ [][SpecKeyNext]_vars

\* --- _extract_terms on a text, called more than once ----------------------
\* The texts: up to MaxTokens words, separated by one blank or by a blank and
\* a tab, with or without a blank at both ends.
TextWords == {<<"T", "h", "e">>, <<"w", "i", "t", "h">>, <<"o", "f">>, <<"n", "e", "t">>, <<"d", "e", "e", "p">>}
MaxTokens == 4
WordSeqs == UNION {[1..n -> TextWords] : n \in 0..MaxTokens}
RECURSIVE JoinWith(_, _)
JoinWith(sep, words) ==
    IF words = <<>> THEN <<>>
    ELSE IF Len(words) = 1 THEN words[1]
    ELSE words[1] \o sep \o JoinWith(sep, Tail(words))
Texts ==
    {pad \o JoinWith(sep, ws) \o pad :
        pad \in {<<>>, <<" ">>}, sep \in {<<" ">>, <<" ", "\t">>}, ws \in WordSeqs}
MaxCalls == 2

ExtractTermsCall ==
    /\ Len(callOut) < MaxCalls
    /\ callOut' = Append(callOut, ExtractTerms(callArgs))
    /\ UNCHANGED callArgs

SpecTextInit ==
    /\ ClientIdle /\ SearchIdle /\ KeyIdle /\ ConcIdle
    /\ callArgs \in Texts
    /\ callOut = <<>>
SpecTextNext == ExtractTermsCall /\ UNCHANGED <<clientVars, searchVars, keyVars, concVars>>
SpecText == SpecTextInit /\ [][SpecTextNext]_vars

\* --- get_works on the records of one upstream response --------------------
RecordTitles ==
    {<<"D", "e", "e", "p", " ", "N", "e", "t", "s">>,
     <<"d", "e", "e", "p", " ", "n", "e", "t", "s", " ">>,
     <<" ", "D", "e", "e", "p", " ", "n", "e", "t", "s">>,
     <<"B", "o", "t", "a", "n", "y">>,
     <<>>,
     <<" ">>}
MaxRecords == 3
Records == {Work(t, c, None, <<>>) : t \in RecordTitles, c \in {10, 50}}
ResponseDatas ==
    {[has_results |-> TRUE, results |-> rs] : rs \in UNION {[1..n -> Records] : n \in 0..MaxRecords}}

GetWorksCall ==
    /\ callOut = <<>>
    /\ callOut' = <<GetWorks(Response(200, callArgs, None))>>
    /\ UNCHANGED callArgs

SpecWorksInit ==
    /\ ClientIdle /\ SearchIdle /\ KeyIdle /\ ConcIdle
    /\ callArgs \in ResponseDatas
    /\ callOut = <<>>
SpecWorksNext == GetWorksCall /\ UNCHANGED <<clientVars, searchVars, keyVars, concVars>>
SpecWorks == SpecWorksInit /\ [][SpecWorksNext]_vars

\* --- _calculate_relevance on two works and one set of query terms ----------
ScoreTitles ==
    {<<"D", "e", "e", "p", " ", "N", "e", "t", "s">>, <<"B", "o", "t", "a", "n", "y">>,
     <<"D", "e", "e", "p", "n", "e", "t", "s", " ", "N", "e", "t", "s">>, <<>>}
ScoreAbstracts == {None, Some(<<"d", "e", "e", "p", " ", "n", "e", "t", "s", " ", "a", "n", "d", " ", "t", "h", "e", " ", "n", "e", "t">>)}
ScoreCitations == {0, 50, 200, 1000}
ScoreWorks ==
    {[Work(t, c, None, <<>>) EXCEPT !.abstract = ab] :
        t \in ScoreTitles, c \in ScoreCitations, ab \in ScoreAbstracts}
QueryTermPool ==
    {<<"d", "e", "e", "p", " ", "n", "e", "t", "s">>,
     <<"d", "e", "e", "p">>,
     <<"n", "e", "t">>,
     <<"n", "e", "t", "s", " ", "a", "n", "d", " ", "b", "o", "l", "t", "s">>,
     <<"b", "o", "t", "a", "n", "y">>,
     <<>>}
MaxQueryTerms == 2
QueryTermSets == {qs \in SUBSET QueryTermPool : Cardinality(qs) <= MaxQueryTerms}
Disciplines == {<<"d", "e", "e", "p">>, <<"b", "o", "t", "a", "n", "y">>}
DisciplineLists == {<<>>, <<<<"n", "e", "t", "s">>>>, <<<<"n", "e", "t", "s">>, <<"b", "o", "t", "a", "n", "y">>>>}

ScoreCall ==
    /\ callOut = <<>>
    /\ callOut' = <<CalculateRelevance(callArgs.work, callArgs.query_terms),
                    CalculateRelevance(callArgs.other, callArgs.query_terms)>>
    /\ UNCHANGED callArgs

\* interdisciplinary_search replaces the score of the first work.
RescoreCall(primary_discipline, secondary_disciplines) ==
    /\ Len(callOut) = 2
    /\ callOut' = Append(callOut,
          [callOut[1] EXCEPT !.relevance_score =
              InterdisciplinaryScore(callArgs.work, callOut[1].relevance_score,
                                     primary_discipline, secondary_disciplines)])
    /\ UNCHANGED callArgs

SpecScoreInit ==
    /\ ClientIdle /\ SearchIdle /\ KeyIdle /\ ConcIdle
    /\ \E w \in ScoreWorks, o \in ScoreWorks, qs \in QueryTermSets :
          callArgs = [work |-> w, other |-> o, query_terms |-> qs]
    /\ callOut = <<>>
SpecScoreNext ==
    \/ ScoreCall /\ UNCHANGED <<clientVars, searchVars, keyVars, concVars>>
    \/ \E pd \in Disciplines, sds \in DisciplineLists :
          RescoreCall(pd, sds) /\ UNCHANGED <<clientVars, searchVars, keyVars, concVars>>
SpecScore == SpecScoreInit /\ [][SpecScoreNext]_vars

\* --- lines 184-196 of search on one upstream response ---------------------
RankRecords ==
    {Work(<<"D", "e", "e", "p", " ", "N", "e", "t", "s">>, 50, Some("10.1/a"), <<>>),
     Work(<<"d", "e", "e", "p", " ", "n", "e", "t", "s", " ">>, 1000, None, <<>>),
     Work(<<"N", "e", "t", "s">>, 200, None, <<>>),
     Work(<<"N", "e", "t", "s">>, 50, Some("10.1/b"), <<>>),
     Work(<<"B", "o", "t", "a", "n", "y">>, 1000, None, <<>>),
     Work(<<"B", "o", "t", "a", "n", "y">>, 50, Some("10.1/c"), <<>>)}
MaxRanked == 3
RankResponses ==
    {Response(200, [has_results |-> TRUE, results |-> rs], None) :
        rs \in UNION {[1..n -> RankRecords] : n \in 0..MaxRanked}}
RankQueries ==
    {StructuredQuery(Listed(<<<<"D", "e", "e", "p", " ", "N", "e", "t", "s">>>>), Absent, Absent),
     StructuredQuery(Listed(<<<<"d", "e", "e", "p", " ", "n", "e", "t", "s">>>>), Absent, Listed(<<<<"b", "o", "t", "a", "n", "y">>>>))}
RankArgs ==
    {SearchArgs("q", 0, None, None, None, None, FALSE),
     SearchArgs("q", 1, None, None, None, None, FALSE),
     SearchArgs("q", 2, None, None, None, None, FALSE),
     SearchArgs("q", 2, None, None, None, Some(<<"preprint">>), FALSE),
     SearchArgs("q", 2, None, None, None, None, TRUE),
     SearchArgs("q", 5, None, None, None, None, FALSE)}

RankCall ==
    /\ callOut = <<>>
    /\ callArgs.op = "search"
    /\ callOut' = <<RankedResults(callArgs.response, callArgs.sq, callArgs.args.max_results,
                                  callArgs.args.publication_types,
                                  callArgs.args.open_access_only)>>
    /\ UNCHANGED callArgs

RankArticlesCall ==
    /\ callOut = <<>>
    /\ callArgs.op = "search_articles"
    /\ callOut' = <<RankedArticles(callArgs.response, callArgs.sq, callArgs.args.max_results)>>
    /\ UNCHANGED callArgs

SpecRankInit ==
    /\ ClientIdle /\ SearchIdle /\ KeyIdle /\ ConcIdle
    /\ \E r \in RankResponses, sq \in RankQueries, a \in RankArgs :
          \/ callArgs = [op |-> "search", response |-> r, sq |-> sq, args |-> a]
          \/ /\ a.publication_types = None /\ ~a.open_access_only
             /\ callArgs = [op |-> "search_articles", response |-> r, sq |-> sq, args |-> a]
    /\ callOut = <<>>
SpecRankNext == (RankCall \/ RankArticlesCall) /\ UNCHANGED <<clientVars, searchVars, keyVars, concVars>>
SpecRank == SpecRankInit /\ [][SpecRankNext]_vars

\* --- ExpertSearcher._extract_terms on every short text ---------------------
ExpertWords == {<<"D", "e", "e", "p">>, <<"l", "e", "a", "r", "n", "i", "n", "g">>, <<"h", "a", "v", "e">>, <<"s", "h", "o", "w", "n">>}
ExpertTexts == {JoinWith(<<" ">>, ws) : ws \in UNION {[1..n -> ExpertWords] : n \in 0..MaxTokens}}

ExpertExtractTermsCall ==
    /\ callOut = <<>>
    /\ callOut' = <<ExpertExtractTerms(callArgs)>>
    /\ UNCHANGED callArgs

SpecExpertTextInit ==
    /\ ClientIdle /\ SearchIdle /\ KeyIdle /\ ConcIdle
    /\ callArgs \in ExpertTexts
    /\ callOut = <<>>
SpecExpertTextNext ==
    ExpertExtractTermsCall /\ UNCHANGED <<clientVars, searchVars, keyVars, concVars>>
SpecExpertText == SpecExpertTextInit /\ [][SpecExpertTextNext]_vars

\* --- _extract_experts_from_works on every short list of works -------------
ExpertTitles == {<<"D", "e", "e", "p", " ", "N", "e", "t", "s">>, <<"B", "o", "t", "a", "n", "y">>}
AuthorLists == {<<>>, <<"Ada">>, <<"Bob">>, <<"Ada", "Bob">>, <<"ada">>}
ExpertWorks == {Work(t, 10, None, au) : t \in ExpertTitles, au \in AuthorLists}
ExpertWorkLists == UNION {[1..n -> ExpertWorks] : n \in 0..MaxRecords}

ExpertsCall(min_works) ==
    /\ callOut = <<>>
    /\ callOut' = <<[min_works |-> min_works, areas |-> ExpertiseAreas(callArgs, min_works)]>>
    /\ UNCHANGED callArgs

SpecExpertsInit ==
    /\ ClientIdle /\ SearchIdle /\ KeyIdle /\ ConcIdle
    /\ callArgs \in ExpertWorkLists
    /\ callOut = <<>>
SpecExpertsNext ==
    \E min_works \in {1, 2} :
        ExpertsCall(min_works) /\ UNCHANGED <<clientVars, searchVars, keyVars, concVars>>
SpecExperts == SpecExpertsInit /\ [][SpecExpertsNext]_vars

\* --- the HTTP handler search_literature around search ----------------------
\* result['response_time'] = elapsed_time on a mapping.
WithResponseTime(result, elapsed_time) ==
    [f \in DOMAIN result \cup {"response_time"} |->
        IF f = "response_time" THEN elapsed_time ELSE result[f]]

\* The cache after the handler wrote response_time: the mapping search
\* returned on a hit or after a put is the object the entry holds.
SharedWithCache(cache, cache_key, elapsed_time) ==
    [i \in 1..Len(cache) |->
        IF cache[i].key = cache_key
        THEN [cache[i] EXCEPT !.result = WithResponseTime(cache[i].result, elapsed_time)]
        ELSE cache[i]]

\* api_server.search_literature, lines 143-174; last.ret is what search returned.
SearchLiterature(a, qp, up, elapsed_time) ==
    LET e == SearchRun(result_cache, now, now, a, qp, up, "ok")
        k == GenerateCacheKey(a)
    IN  /\ result_cache' = IF e.hit \/ e.put
                           THEN SharedWithCache(e.cache, k, elapsed_time)
                           ELSE e.cache
        /\ ops' = ops + 1
        /\ last' = Last("search_literature", ops + 1, k, now, Len(result_cache), e)
        /\ lastPut' = IF e.put
                      THEN PutRecord(TRUE, k, e.ret, now, ops + 1,
                                     Len(result_cache) >= MAX_ENTRIES /\ k \notin CacheKeys(result_cache))
                      ELSE lastPut
        /\ UNCHANGED now

ElapsedTimes == {1, 2}
MaxApiOps == 3
SpecApiInit == Init
SpecApiNext ==
    \/ \E a \in MainArgs, qp \in WarmQueries, up \in BasicRuns, el \in ElapsedTimes :
          ops < MaxApiOps /\ SearchLiterature(a, qp, up, el) /\ UNCHANGED Others
    \/ \E d \in TickDeltas : ops < MaxApiOps /\ Tick(d) /\ UNCHANGED Others
SpecApi == SpecApiInit /\ [][SpecApiNext]_vars

\* --- advanced_search with explicit parameters ------------------------------
AreaLists == {<<"deep learning">>, <<"botany", "ecology">>}
TopicLists == {None, Some(<<>>), Some(<<"vision">>)}
MethodLists == {None, Some(<<"surveys">>)}
\* What the collaborator makes of the query text: the structured query of
\* the explicit parameters, another one, or none at all.
Interpretations(sq) ==
    {QPOutcome("query", sq), QPOutcome("query", DeepQuery), QPOutcome("query", NoQuery)}

SpecAdvancedInit == Init
SpecAdvancedNext ==
    \/ \E ra \in AreaLists, st \in TopicLists, me \in MethodLists, up \in BasicRuns :
          \E qp \in Interpretations(ExplicitQuery(ra, st, me)) :
             ops < MaxApiOps /\ AdvancedSearch(ra, st, me, 10, qp, up) /\ UNCHANGED Others
    \/ \E d \in TickDeltas : ops < MaxApiOps /\ Tick(d) /\ UNCHANGED Others
SpecAdvanced == SpecAdvancedInit /\ [][SpecAdvancedNext]_vars

\* --- two searches running in two threads of the HTTP server ---------------
Threads == {1, 2}
ThreadArgs == << {ArgsA}, {ArgsB, FillerArgs(1)} >>

Local(a, n) ==
    [key |-> GenerateCacheKey(a), result |-> Result("success", None, a.query, 0, 0),
     n0 |-> n, keys |-> <<>>, times |-> <<>>, oldest_keys |-> <<>>, idx |-> 0,
     stored |-> FALSE, inserted |-> FALSE, overflowed |-> FALSE, failed |-> FALSE,
     partial |-> FALSE, ret |-> NoResult]

\* Another thread has deleted some but not all of its oldest_keys.
PartiallyEvicted(t) ==
    \E u \in Threads \ {t} :
        pc[u] = "put_del" /\ loc[u].idx > 1 /\ loc[u].idx <= Len(loc[u].oldest_keys)

\* A KeyError inside a cache operation ends the search in its except clause.
KeyError(t) ==
    /\ pc' = [pc EXCEPT ![t] = "done"]
    /\ loc' = [loc EXCEPT ![t].failed = TRUE,
                          ![t].ret = Result("error", Some("Error processing literature search"),
                                            loc[t].result.original_query, 0, 0)]
    /\ UNCHANGED result_cache

\* line 1138: if cache_key in self.result_cache
GetContains(t) ==
    /\ pc[t] = "get_in"
    /\ pc' = [pc EXCEPT ![t] = IF loc[t].key \in CacheKeys(result_cache)
                                THEN "get_item" ELSE "pipeline"]
    /\ loc' = [loc EXCEPT ![t].partial = PartiallyEvicted(t)]
    /\ UNCHANGED result_cache

\* lines 1139-1148: cached_item = self.result_cache[cache_key] and the age check
GetItem(t) ==
    /\ pc[t] = "get_item"
    /\ IF loc[t].key \notin CacheKeys(result_cache)
       THEN KeyError(t)
       ELSE LET cached_item == EntryOf(result_cache, loc[t].key) IN
            /\ IF now - cached_item.cached_at < cache_duration * SecondsPerHour
               THEN /\ pc' = [pc EXCEPT ![t] = "done"]
                    /\ loc' = [loc EXCEPT ![t].ret = cached_item.result,
                                          ![t].partial = @ \/ PartiallyEvicted(t)]
               ELSE /\ pc' = [pc EXCEPT ![t] = "pipeline"]
                    /\ loc' = [loc EXCEPT ![t].partial = @ \/ PartiallyEvicted(t)]
            /\ UNCHANGED result_cache

\* lines 113-270: the search itself, which succeeds or ends in an error result
Pipeline(t, ok) ==
    /\ pc[t] = "pipeline"
    /\ IF ok
       THEN pc' = [pc EXCEPT ![t] = "put_store"] /\ UNCHANGED loc
       ELSE /\ pc' = [pc EXCEPT ![t] = "done"]
            /\ loc' = [loc EXCEPT ![t].ret = Result("error", Some("Error from OpenAlex API"),
                                                     loc[t].result.original_query, 0, 0)]
    /\ UNCHANGED result_cache

\* lines 1152-1157: self.result_cache[cache_key] = cache_entry
PutStore(t) ==
    /\ pc[t] = "put_store"
    /\ result_cache' = StoreEntry(result_cache, CacheEntry(loc[t].key, loc[t].result, now))
    /\ pc' = [pc EXCEPT ![t] = "put_len"]
    /\ loc' = [loc EXCEPT ![t].stored = TRUE,
                          ![t].inserted = loc[t].key \notin CacheKeys(result_cache)]

\* line 1160: if len(self.result_cache) > 100
PutLen(t) ==
    /\ pc[t] = "put_len"
    /\ IF Len(result_cache) > MAX_ENTRIES
       THEN /\ pc' = [pc EXCEPT ![t] = "put_keys"]
            /\ loc' = [loc EXCEPT ![t].overflowed = TRUE]
       ELSE /\ pc' = [pc EXCEPT ![t] = "done"]
            /\ loc' = [loc EXCEPT ![t].ret = loc[t].result]
    /\ UNCHANGED result_cache

\* lines 1162-1163: sorted() takes the list of the keys
PutKeys(t) ==
    /\ pc[t] = "put_keys"
    /\ pc' = [pc EXCEPT ![t] = "put_keyfn"]
    /\ loc' = [loc EXCEPT ![t].keys = [i \in 1..Len(result_cache) |-> result_cache[i].key],
                          ![t].times = <<>>]
    /\ UNCHANGED result_cache

\* line 1164: sorted() calls the key function on the next key; after the
\* last call it sorts, and line 1165 keeps the first 10 keys.
PutKeyFn(t) ==
    /\ pc[t] = "put_keyfn"
    /\ LET k == loc[t].keys[Len(loc[t].times) + 1] IN
       IF k \notin CacheKeys(result_cache)
       THEN KeyError(t)
       ELSE LET times == Append(loc[t].times, EntryOf(result_cache, k).cached_at) IN
            /\ IF Len(times) < Len(loc[t].keys)
               THEN /\ pc' = pc
                    /\ loc' = [loc EXCEPT ![t].times = times]
               ELSE /\ pc' = [pc EXCEPT ![t] = "put_del"]
                    /\ loc' = [loc EXCEPT
                          ![t].times = times,
                          ![t].idx = 1,
                          ![t].oldest_keys =
                              OldestKeys([i \in 1..Len(times) |->
                                            CacheEntry(loc[t].keys[i], NoResult, times[i])])]
            /\ UNCHANGED result_cache

\* lines 1167-1168: del self.result_cache[key] for the next of oldest_keys
PutDel(t) ==
    /\ pc[t] = "put_del"
    /\ LET k == loc[t].oldest_keys[loc[t].idx] IN
       IF k \notin CacheKeys(result_cache)
       THEN KeyError(t)
       ELSE /\ result_cache' = DeleteKeys(result_cache, {k})
            /\ IF loc[t].idx < Len(loc[t].oldest_keys)
               THEN /\ pc' = pc
                    /\ loc' = [loc EXCEPT ![t].idx = @ + 1]
               ELSE /\ pc' = [pc EXCEPT ![t] = "done"]
                    /\ loc' = [loc EXCEPT ![t].idx = @ + 1, ![t].ret = loc[t].result]

SpecConcInit ==
    /\ ClientIdle /\ KeyIdle /\ CallIdle
    /\ \E n \in WarmSizes :
          /\ result_cache = [i \in 1..n |-> FillerEntry(i)]
          /\ \E a1 \in ThreadArgs[1], a2 \in ThreadArgs[2] :
                loc = << Local(a1, n), Local(a2, n) >>
    /\ pc = [t \in Threads |-> "get_in"]
    /\ now = cache_duration * SecondsPerHour - 1
    /\ last = NoLast /\ lastPut = NoPut /\ ops = 0
ConcOthers == <<clientVars, keyVars, callVars, now, last, lastPut, ops>>
SpecConcNext ==
    \/ \E t \in Threads : GetContains(t) /\ UNCHANGED ConcOthers
    \/ \E t \in Threads : GetItem(t) /\ UNCHANGED ConcOthers
    \/ \E t \in Threads, ok \in BOOLEAN : Pipeline(t, ok) /\ UNCHANGED ConcOthers
    \/ \E t \in Threads : PutStore(t) /\ UNCHANGED ConcOthers
    \/ \E t \in Threads : PutLen(t) /\ UNCHANGED ConcOthers
    \/ \E t \in Threads : PutKeys(t) /\ UNCHANGED ConcOthers
    \/ \E t \in Threads : PutKeyFn(t) /\ UNCHANGED ConcOthers
    \/ \E t \in Threads : PutDel(t) /\ UNCHANGED ConcOthers
SpecConc == SpecConcInit /\ [][SpecConcNext]_vars

(***************************************************************************)
(* Properties                                                              *)
(***************************************************************************)
\* The sleep a 429 answer asks for: its Retry-After, or twice the base delay.
AskedWait(o) == IF o.retry_after = None THEN rate_limit_delay * 2 ELSE o.retry_after[1]
IsRateLimited(o) == ~o.net /\ o.status = 429 /\ (o.retry_after = None \/ o.retry_after[1] >= 0)
IsValid200(o) == ~o.net /\ o.status = 200 /\ o.body = "object"

RECURSIVE SumSeq(_)
SumSeq(xs) == IF xs = <<>> THEN 0 ELSE Head(xs) + SumSeq(Tail(xs))

\* The upstream answered k < max_retries 429 responses and then a 200 with
\* valid JSON.
RateLimitedThenOk ==
    /\ upstream # <<>>
    /\ IsValid200(upstream[Len(upstream)])
    /\ \A i \in 1..(Len(upstream) - 1) : IsRateLimited(upstream[i])

\* C1: after k < max_retries consecutive 429 responses followed by a 200 with
\* valid JSON, _make_request has issued exactly k+1 requests, has slept exactly
\* the Retry-After of each 429 in order (twice the base delay when the header
\* is absent) and nothing else, and returns the successful response.
C1_RetryAfterHonoured ==
    RateLimitedThenOk =>
        /\ issued = Len(upstream)
        /\ Len(sleeps) = Len(upstream)
        /\ \A i \in 1..(Len(upstream) - 1) : SumSeq(sleeps[i]) = AskedWait(upstream[i])
        /\ sleeps[Len(upstream)] = <<>>
        /\ ret = Response(200, upstream[Len(upstream)].data, None)

\* Every one of the max_retries attempts failed by a network error or a 429.
AllAttemptsFailed ==
    /\ Len(upstream) = max_retries
    /\ \A i \in 1..Len(upstream) : upstream[i].net \/ upstream[i].status = 429

\* C2: when all max_retries attempts of a call fail by network errors, 429
\* responses or a mix, the call returns a Failure: a response with its error
\* set that carries an HTTP status and a message.
C2_ExhaustedReturnsFailure ==
    (AllAttemptsFailed /\ ret.kind # "running") =>
        (ret.kind = "response" /\ ret.error # None /\ ret.status_code > 0)

\* C3: search never raises; it returns a mapping whose status is success or
\* error, and an error mapping carries a message and no results.
C3_SearchNeverRaises ==
    last.op = "search" =>
        /\ ~last.raised
        /\ last.ret.status \in {"success", "error"}
        /\ last.ret.status = "error" => (last.ret.message # None /\ last.ret.n_results = 0)

\* C3 witness: a search whose upstream call returned no value ended in the
\* error mapping after requests were issued.
C3_Witness ==
    /\ last.op = "search"
    /\ last.ret.status = "error"
    /\ last.ret.message = Some("Error processing literature search")
    /\ last.requests = max_retries

\* C4: for a structured query whose three term lists are all empty or absent,
\* search, search_experts and search_articles return zero results and issue
\* no request to the upstream.
C4_EmptyQueryShortCircuits ==
    (last.op \in {"search", "search_experts", "search_articles"}
        /\ last.asked /\ IsEmptyQuery(last.sq)) =>
        (~last.raised /\ last.ret.n_results = 0 /\ last.requests = 0)

\* C4 witness: a search got a structured query with a present but empty list
\* and nothing else.
C4_Witness ==
    /\ last.op = "search"
    /\ last.asked
    /\ IsEmptyQuery(last.sq)
    /\ last.sq.research_areas.present
    /\ last.ret.status = "error"

TTL == cache_duration * SecondsPerHour

\* C5: after put(key, v), also one that evicted, a get(key) returns v while
\* now - createdAt < TTL and is a miss once now - createdAt >= TTL; the
\* lookups that searches made after the put behaved so.
C5_PutThenGet ==
    lastPut.valid =>
        /\ GetFromCache(result_cache, lastPut.key, now) =
              (IF now - lastPut.at < TTL THEN Some(lastPut.result) ELSE None)
        /\ (last.op = "search" /\ last.seq > lastPut.seq /\ last.key = lastPut.key) =>
              /\ last.hit <=> (last.at - lastPut.at < TTL)
              /\ last.hit => last.ret = lastPut.result

\* C5 witness: a put that evicted was followed by a search that was answered
\* from the entry it wrote.
C5_Witness ==
    /\ lastPut.valid /\ lastPut.evicted
    /\ last.op = "search" /\ last.seq > lastPut.seq /\ last.key = lastPut.key
    /\ last.hit

\* C6: a put of a new key into a cache of MAX_ENTRIES entries removes exactly
\* the EVICT_BATCH entries with the oldest creation time and no others, and
\* leaves 91 entries, the new one among them.
C6_EvictsTenOldest ==
    [][ (last'.seq # last.seq /\ last'.put /\ Len(result_cache) = MAX_ENTRIES
            /\ last'.key \notin CacheKeys(result_cache)) =>
        LET removed == {i \in 1..Len(result_cache) :
                            result_cache[i].key \notin CacheKeys(result_cache')}
        IN  /\ Cardinality(removed) = EVICT_BATCH
            /\ Len(result_cache') = MAX_ENTRIES + 1 - EVICT_BATCH
            /\ last'.key \in CacheKeys(result_cache')
            /\ \A i \in removed, j \in 1..Len(result_cache') :
                  result_cache[i].cached_at <= result_cache'[j].cached_at
            /\ \A j \in 1..Len(result_cache') :
                  \/ result_cache'[j].key = last'.key
                  \/ result_cache'[j] \in SeqRange(result_cache) ]_vars

\* C6 witness: the put that just completed evicted and left 91 entries.
C6_Witness ==
    /\ lastPut.valid /\ lastPut.evicted /\ lastPut.seq = ops
    /\ Len(result_cache) = 91

\* C7: once a put has completed the cache holds at most MAX_ENTRIES entries.
C7_CacheBounded == Len(result_cache) <= MAX_ENTRIES

\* C7 witness: a put completed and left the cache exactly full.
C7_Witness == lastPut.valid /\ lastPut.seq = ops /\ Len(result_cache) = MAX_ENTRIES

\* C9: every cache entry holds a result with status success, and a search
\* that returns status error leaves the cache unchanged.
C9_OnlySuccessCached ==
    /\ [](\A i \in 1..Len(result_cache) : result_cache[i].result.status = "success")
    /\ [][ (last'.seq # last.seq /\ last'.op = "search" /\ last'.ret.status = "error")
              => result_cache' = result_cache ]_vars

\* C9 witness: a search returned status error while the cache held an entry.
C9_Witness == last.op = "search" /\ last.ret.status = "error" /\ Len(result_cache) > 0

SameSearch(a, b) ==
    /\ a.query = b.query
    /\ a.max_results = b.max_results
    /\ a.from_year = b.from_year
    /\ a.to_year = b.to_year
    /\ a.min_citations = b.min_citations
    /\ SeqRange(OrEmptyList(a.publication_types)) = SeqRange(OrEmptyList(b.publication_types))
    /\ a.open_access_only = b.open_access_only

\* C10: the cache key is injective: two searches that differ in query, max
\* results, from year, to year, minimum citations, publication-type set or
\* open-access flag never get the same key.
C10_KeyInjective ==
    (keyOut # <<>> /\ keyOut[1] = keyOut[2]) => SameSearch(keyArgs[1], keyArgs[2])

IsServerError(o) == ~o.net /\ o.status >= 500
IsClientError(o) == ~o.net /\ o.status >= 400 /\ o.status < 500 /\ o.status # 429
IsInvalid200(o) == ~o.net /\ o.status = 200 /\ o.body \in {"text", "empty"}
IsFailure(r) == r.kind = "response" /\ r.error # None

\* C11: a 5xx response is retried: a call that got a 5xx response surfaces a
\* Failure only once max_retries requests have been issued.
C11_ServerErrorRetried ==
    (IsFailure(ret) /\ \E i \in 1..Len(upstream) : IsServerError(upstream[i]))
        => issued = max_retries

\* The number of consecutive network failures that end with attempt i.
RECURSIVE FailureRun(_)
FailureRun(i) == IF i = 0 \/ ~upstream[i].net THEN 0 ELSE 1 + FailureRun(i - 1)

\* C12: after the n-th consecutive network failure of a call, n from 1 to
\* max_retries - 1, the client sleeps rate_limit_delay * n in total before
\* the next request.
C12_LinearBackoff ==
    \A i \in 1..Len(upstream) :
        (upstream[i].net /\ i < max_retries)
            => SumSeq(sleeps[i]) = rate_limit_delay * FailureRun(i)

\* C13: a 4xx response other than 429 ends the call, whatever its body: it
\* is the last request, and the call returns a Failure with that status.
C13_ClientErrorNotRetried ==
    \A i \in 1..Len(upstream) :
        IsClientError(upstream[i]) =>
            /\ i = Len(upstream)
            /\ IsFailure(ret) /\ ret.status_code = upstream[i].status

\* The Failure a call ends with when its last attempt is a network error.
NetworkFailure == OnRequestException(max_retries - 1).ret

\* C14: a 200 response whose body is not valid JSON ends the call at that
\* attempt with a Failure that differs from the Failure of a network error.
C14_InvalidJsonSurfaced ==
    \A i \in 1..Len(upstream) :
        IsInvalid200(upstream[i]) =>
            /\ i = Len(upstream) /\ issued = i
            /\ IsFailure(ret)
            /\ ret.status_code # NetworkFailure.status_code
            /\ ret.error # NetworkFailure.error

\* C14 witness: after a rate-limited attempt the second request got a 200
\* with a body that is not JSON, and the call ended there.
C14_Witness ==
    /\ Len(upstream) = 2 /\ issued = 2
    /\ IsRateLimited(upstream[1]) /\ IsInvalid200(upstream[2]) /\ upstream[2].body = "text"
    /\ ret = Response(200, NoData, Some("Invalid JSON response from API"))

\* The reference term set of a text: the n-grams, n = 1..3, of consecutive
\* tokens longer than 2 characters, kept as token sequences, without those
\* shorter than 4 characters once joined and those of stop words only.
GramLength(g) == SumSeq([k \in 1..Len(g) |-> Len(g[k])]) + (Len(g) - 1)
RefTerms(text) ==
    LET tokens == SelectSeq(Split(Lower(text)), LAMBDA w : Len(w) >= 3)
        grams == UNION {{SubSeq(tokens, i, i + n - 1) : i \in 1..(Len(tokens) - n + 1)} : n \in 1..3}
    IN  {JoinWords(g) : g \in {h \in grams : GramLength(h) >= 4
                                             /\ \E k \in 1..Len(h) : h[k] \notin stopwords}}

\* C20: every call of _extract_terms returns the reference term set of its
\* text, so two calls on the same text return the same set.
C20_ExtractTermsIsReference ==
    \A c \in 1..Len(callOut) : callOut[c] = RefTerms(callArgs)

\* C20 witness: the second call on a text with a stop word, a short token
\* and a three-letter word returned a set with a trigram in it.
C20_Witness ==
    /\ Len(callOut) = 2
    /\ \E t \in callOut[2] : Len(Split(t)) = 3 /\ AnyStopword(t)
    /\ <<"n", "e", "t">> \in SeqRange(Split(callArgs))
    /\ <<"o", "f">> \in SeqRange(Split(callArgs))

\* C15: among the records of a response whose titles are equal after
\* lower-casing and trimming, get_works returns exactly one, the record that
\* occurs first in the response.
C15_FirstOccurrenceWins ==
    callOut # <<>> =>
        LET records == callArgs.results
            works == callOut[1]
        IN  \A i \in 1..Len(records) :
                LET same(t) == NormalizeTitle(t) = NormalizeTitle(records[i].title)
                    first == CHOOSE j \in 1..Len(records) :
                                /\ same(records[j].title)
                                /\ \A k \in 1..(j - 1) : ~same(records[k].title)
                    kept == {k \in 1..Len(works) : same(works[k].title)}
                IN  Cardinality(kept) = 1 /\ \A k \in kept : works[k] = records[first]

InUnitInterval(f) == 0 <= f.num /\ f.num <= f.den

\* C18: for a record with a non-negative citation count and any set of
\* query terms, relevance_score and every topic_matches value lie in [0,1],
\* and the score interdisciplinary_search puts in its place lies in [0,1].
C18_ScoresInUnitInterval ==
    \A k \in 1..Len(callOut) :
        /\ InUnitInterval(callOut[k].relevance_score)
        /\ \A qt \in DOMAIN callOut[k].topic_matches : InUnitInterval(callOut[k].topic_matches[qt])

\* C18 witness: a work of 1000 citations matched by every query term got
\* the score 1, a topic match, and the score 1 again when re-scored.
C18_Witness ==
    /\ Len(callOut) = 3
    /\ callArgs.work.citations = 1000
    /\ FracEqual(callOut[1].relevance_score, Fraction(1, 1))
    /\ FracEqual(callOut[3].relevance_score, Fraction(1, 1))
    /\ DOMAIN callOut[1].topic_matches # {}

\* C19: of two records with the same title and abstract scored against the
\* same query terms, the one with more citations never has the lower score.
C19_MonotoneInCitations ==
    (Len(callOut) >= 2
        /\ callArgs.work.title = callArgs.other.title
        /\ callArgs.work.abstract = callArgs.other.abstract
        /\ callArgs.work.citations <= callArgs.other.citations)
    => ~FracLess(callOut[2].relevance_score, callOut[1].relevance_score)

\* C19 witness: the same title and abstract with 50 and with 200 citations,
\* and the second score is the greater one.
C19_Witness ==
    /\ Len(callOut) >= 2
    /\ callArgs.work.title = callArgs.other.title
    /\ callArgs.work.abstract = callArgs.other.abstract
    /\ callArgs.work.citations = 50 /\ callArgs.other.citations = 200
    /\ FracLess(callOut[1].relevance_score, callOut[2].relevance_score)

\* The deduplicated and filtered candidates of the call, scored.
Candidates ==
    IF callArgs.op = "search"
    THEN LiteratureResults(GetWorks(callArgs.response), callArgs.sq,
                           callArgs.args.publication_types, callArgs.args.open_access_only)
    ELSE ConvertWorksToArticles(GetWorks(callArgs.response), callArgs.sq)
TimesIn(x, xs) == Cardinality({i \in 1..Len(xs) : xs[i] = x})
PairAtLeast(a, b) ==
    \/ FracLess(b.relevance_score, a.relevance_score)
    \/ FracEqual(a.relevance_score, b.relevance_score) /\ a.citations >= b.citations
PairGreater(a, b) == ~PairAtLeast(b, a)

\* C16: the results are the top min(maxResults, n) of the n candidates in
\* descending order of (relevance_score, citations): every result's pair is
\* at least the next one's, no omitted candidate has a greater pair than a
\* returned one, and at most maxResults results are returned.
C16_TopByScoreThenCitations ==
    callOut # <<>> =>
        LET results == callOut[1]
            candidates == Candidates
            n == Len(candidates)
        IN  /\ Len(results) = Min(callArgs.args.max_results, n)
            /\ \A k \in 1..Len(results) : TimesIn(results[k], results) <= TimesIn(results[k], candidates)
            /\ \A k \in 1..(Len(results) - 1) : PairAtLeast(results[k], results[k + 1])
            /\ \A i \in 1..n : \A k \in 1..Len(results) :
                  TimesIn(candidates[i], results) < TimesIn(candidates[i], candidates)
                      => ~PairGreater(candidates[i], results[k])

\* C16 witness: of three candidates two tie on relevance_score, the one with
\* more citations is returned first, and the third is cut off.
C16_Witness ==
    /\ callOut # <<>> /\ callArgs.op = "search"
    /\ Len(Candidates) = 3 /\ Len(callOut[1]) = 2
    /\ FracEqual(callOut[1][1].relevance_score, callOut[1][2].relevance_score)
    /\ callOut[1][1].citations > callOut[1][2].citations
    /\ \E i \in 1..3 : Candidates[i] = callOut[1][2] /\ Candidates[i + 1] = callOut[1][1]

FullCoverage(r) ==
    QueryTerms(callArgs.sq) # {}
    /\ FracEqual(Coverage(ExtractTermsFromWork(r), QueryTerms(callArgs.sq)), Fraction(1, 1))
NoCoverage(r) ==
    QueryTerms(callArgs.sq) # {}
    /\ FracEqual(Coverage(ExtractTermsFromWork(r), QueryTerms(callArgs.sq)), Zero)

\* C17: a record of coverage 1 is ranked above every record of coverage 0,
\* whatever their citations: it has the greater score, it comes first in the
\* results, and it is never cut off while the other is returned.
C17_CoverageDominates ==
    (callOut # <<>> /\ callArgs.op = "search") =>
        LET results == callOut[1]
            candidates == Candidates
        IN
        /\ \A i \in 1..Len(candidates), j \in 1..Len(candidates) :
              (FullCoverage(candidates[i]) /\ NoCoverage(candidates[j]))
                 => FracLess(candidates[j].relevance_score, candidates[i].relevance_score)
        /\ \A k \in 1..Len(results), l \in 1..Len(results) :
              (FullCoverage(results[k]) /\ NoCoverage(results[l])) => k < l
        /\ \A i \in 1..Len(candidates), l \in 1..Len(results) :
              (FullCoverage(candidates[i]) /\ NoCoverage(results[l]))
                 => TimesIn(candidates[i], results) = TimesIn(candidates[i], candidates)

\* C17 witness: a fully matching record of 50 citations came second in the
\* response and is returned before an unrelated record of 1000 citations.
C17_Witness ==
    /\ callOut # <<>> /\ callArgs.op = "search" /\ Len(callOut[1]) = 2
    /\ FullCoverage(callOut[1][1]) /\ callOut[1][1].citations = 50
    /\ NoCoverage(callOut[1][2]) /\ callOut[1][2].citations = 1000
    /\ callArgs.response.data.results[1].citations = 1000
    /\ NoCoverage(callArgs.response.data.results[1])

\* C21: whenever the upstream call of search_experts or search_articles
\* fails, by a response with its error set or by exhausted retries, the
\* method returns an empty list and does not raise.
C21_UpstreamFailureGivesEmptyList ==
    (last.op \in {"search_experts", "search_articles"} /\ last.upfailed) =>
        (~last.raised /\ last.ret.status = "list" /\ last.ret.n_results = 0)

\* A structured query that names no research area: the mapping is empty,
\* has only unknown keys or lacks research_areas and lists no term, or its
\* research_areas is null.
MalformedQuery(sq) ==
    \/ sq.research_areas.null
    \/ ~sq.research_areas.present /\ IsEmptyQuery(sq)

\* C22: search_experts returns an empty result and does not raise for every
\* malformed structured query.
C22_MalformedQueryGivesEmpty ==
    (last.op = "search_experts" /\ MalformedQuery(last.sq)) =>
        (~last.raised /\ last.ret.status = "list" /\ last.ret.n_results = 0)

\* C23: a cached result is a snapshot: a cache hit for a key returns the
\* mapping that the last put stored under that key, whatever the caller did
\* afterwards to the mapping the storing search returned.
C23_CachedResultIsSnapshot ==
    (last.op = "search_literature" /\ last.hit /\ lastPut.valid
        /\ last.seq > lastPut.seq /\ last.key = lastPut.key) =>
        last.ret = lastPut.result

\* The common words the claim names, and the content words: the others.
CommonWords == {<<"h", "a", "v", "e">>, <<"s", "h", "o", "w", "n">>}
IsContentWord(w) == w \notin CommonWords

\* C24: ExpertSearcher._extract_terms returns every two-word term formed by
\* adjacent content words of the text and returns no common word such as
\* 'have' or 'shown' as a single-word term.
C24_ContentTermsOnly ==
    callOut # <<>> =>
        LET tokens == Split(Lower(callArgs)) IN
        /\ \A i \in 1..(Len(tokens) - 1) :
              (IsContentWord(tokens[i]) /\ IsContentWord(tokens[i + 1]))
                 => JoinWords(<<tokens[i], tokens[i + 1]>>) \in callOut[1]
        /\ \A w \in CommonWords : w \notin callOut[1]

\* C25: every call of _make_request terminates, whatever the upstream
\* answers, after at least one and at most max_retries requests; every
\* request that is tried again, after a 429 as after a network failure,
\* uses up one attempt.
C25_TerminatesWithinBudget ==
    /\ [](issued <= max_retries)
    /\ [](ret.kind = "running" => attempt = issued)
    /\ [](ret.kind # "running" => issued >= 1)
    /\ <>(ret.kind # "running")

\* C25 witness: a call ended after max_retries requests that met both 429
\* responses and network failures.
C25_Witness ==
    /\ ret.kind # "running"
    /\ issued = max_retries
    /\ \E i \in 1..Len(upstream) : upstream[i].net
    /\ \E i \in 1..Len(upstream) : ~upstream[i].net /\ upstream[i].status = 429

\* C26: a cache lookup never changes the cache: a search that makes no put,
\* on a hit, a miss or an expired entry, leaves the entries and their
\* creation times as they were, and a search that makes a put changes the
\* cache by that put alone, so an expired entry stays until a put overwrites
\* or evicts it.
C26_GetLeavesCacheUnchanged ==
    [][ (last'.seq # last.seq /\ last'.op = "search") =>
            result_cache' = IF last'.put
                            THEN AddToCache(result_cache, last'.key, last'.ret, now')
                            ELSE result_cache ]_vars

\* C26 witness: a search looked up an expired entry, made no put, and the
\* expired entry is still in the cache.
C26_Witness ==
    /\ last.op = "search" /\ ~last.hit /\ ~last.put
    /\ last.key \in CacheKeys(result_cache)
    /\ last.at - EntryOf(result_cache, last.key).cached_at >= TTL

\* Whether one of two terms contains the other, and the length of the
\* shorter over the length of the longer.
Related(q, t) == IsSubstring(q, t) \/ IsSubstring(t, q)
LengthRatio(q, t) == Fraction(Min(Len(q), Len(t)), Max(Len(q), Len(t)))
Qualifying(q, record_terms) ==
    {t \in record_terms : Related(q, t) /\ 2 * Min(Len(q), Len(t)) > Max(Len(q), Len(t))}

\* C27: topic_matches contains a query term exactly when a term of the
\* record is related to it with a length ratio above 0.5, and holds for it
\* the greatest such ratio; a best ratio of exactly 0.5 is not recorded.
C27_TopicMatchesAboveHalf ==
    callOut # <<>> =>
        LET topic_matches == callOut[1].topic_matches
            record_terms == ExtractTermsFromWork(callArgs.work)
        IN  /\ DOMAIN topic_matches =
                  {q \in callArgs.query_terms : Qualifying(q, record_terms) # {}}
            /\ \A q \in DOMAIN topic_matches :
                  /\ \E t \in Qualifying(q, record_terms) :
                        FracEqual(topic_matches[q], LengthRatio(q, t))
                  /\ \A t \in Qualifying(q, record_terms) :
                        ~FracLess(topic_matches[q], LengthRatio(q, t))

\* C27 witness: one query term has a best ratio of exactly 0.5 and is left
\* out, another is recorded with a ratio below 1.
C27_Witness ==
    /\ callOut # <<>>
    /\ LET topic_matches == callOut[1].topic_matches
           record_terms == ExtractTermsFromWork(callArgs.work)
       IN  /\ \E q \in callArgs.query_terms \ DOMAIN topic_matches :
                 /\ \E t \in record_terms : Related(q, t) /\ 2 * Len(q) = Len(t)
                 /\ \A t \in record_terms : Related(q, t) => 2 * Len(q) <= Len(t)
           /\ \E q \in DOMAIN topic_matches : FracLess(topic_matches[q], Fraction(1, 1))

\* C28: the structured query that advanced_search searches with, the one
\* that gives the upstream search terms and scores the results, is the one
\* made of its explicit parameters, whatever the query-structuring
\* collaborator returns for the query text.
C28_AdvancedSearchUsesParameters ==
    (last.op = "advanced_search" /\ ~last.hit) =>
        last.sq = last.given

\* The terms of the works that list the expert as an author.
TermsOfOwnWorks(works, aid) ==
    UNION {ExpertConcepts(works[i]) :
              i \in {k \in 1..Len(works) :
                        \E j \in 1..Len(works[k].authors) : AuthorId(works[k].authors[j]) = aid}}

\* C29: the expertise_areas of every expert built by
\* _extract_experts_from_works holds only terms of works that list that
\* expert as an author.
C29_ExpertiseFromOwnWorks ==
    callOut # <<>> =>
        \A aid \in DOMAIN callOut[1].areas :
            callOut[1].areas[aid] \subseteq TermsOfOwnWorks(callArgs, aid)

\* A record of the response that passes the filters of the call by itself.
PassesFilters(record) ==
    ProcessWorkResults(<<record>>, callArgs.args.publication_types,
                       callArgs.args.open_access_only) # <<>>

\* C30: if a record of the upstream response has a title and passes the
\* filters, a candidate with that record's normalized title is present
\* before truncation, also when an earlier record of the same normalized
\* title does not pass.
C30_FilterKeepsQualifyingTitle ==
    (callOut # <<>> /\ callArgs.op = "search") =>
        LET records == callArgs.response.data.results
            candidates == Candidates
        IN  \A i \in 1..Len(records) :
               (NormalizeTitle(records[i].title) # <<>> /\ PassesFilters(records[i])) =>
                  \E c \in 1..Len(candidates) :
                     NormalizeTitle(candidates[c].title) = NormalizeTitle(records[i].title)

====
